---- MODULE Spec2Model ----
(***************************************************************************)
(* A model of the AI-apps configuration server: the config registry        *)
(* (src/src/app-config-mapping.ts), the config reader                      *)
(* (src/unnamed/part_001, config-reader.ts) and the request handlers       *)
(* (src/src/index.ts).                                                     *)
(*                                                                         *)
(* Strings whose characters matter (application keys, file contents,       *)
(* search terms) are sequences of one-character strings.  Paths are        *)
(* sequences of path tokens; the token "~" in first position is a leading   *)
(* tilde character.                                                        *)
(***************************************************************************)
EXTENDS Integers, Sequences, FiniteSets, TLC

VARIABLES
    registry,   \* own properties of APP_CONFIGS: key -> AppConfig
    inherited,  \* the `configs` property of the objects APP_CONFIGS inherits
    arrays,     \* which array object each `configs` property refers to
    fs,         \* the filesystem: absolute path -> node
    mutations,  \* number of registry mutations made so far
    call,       \* the last completed Registry / Reader operation and its outcome
    resp,       \* the last completed request of the server and its outcome
    inflight    \* the call or request that waits on the filesystem, followed
                \* from await to await

vars == <<registry, inherited, arrays, fs, mutations, call, resp, inflight>>

\* The record of a completed operation: its name, the key and the other
\* argument it was given, whether it returned or threw, and what it returned.
Call(o, k, a, out, v) == [op |-> o, key |-> k, arg |-> a, outcome |-> out, value |-> v]

\* no operation has completed yet
Idle == Call("none", <<>>, <<>>, "return", <<>>)

----------------------------------------------------------------------------
(* Bounds of the model *)

\* registry mutations (addConfigLocation / updateAppConfigs) per behaviour
MaxMutations == 2

----------------------------------------------------------------------------
(* Strings *)

Upper == <<"A","B","C","D","E","F","G","H","I","J","K","L","M",
           "N","O","P","Q","R","S","T","U","V","W","X","Y","Z">>

Lower == <<"a","b","c","d","e","f","g","h","i","j","k","l","m",
           "n","o","p","q","r","s","t","u","v","w","x","y","z">>

\* String.prototype.toLowerCase on one character
lowerChar(c) ==
    IF \E i \in 1..Len(Upper) : Upper[i] = c
    THEN Lower[CHOOSE i \in 1..Len(Upper) : Upper[i] = c]
    ELSE c

\* String.prototype.toLowerCase
toLowerCase(s) == [i \in 1..Len(s) |-> lowerChar(s[i])]

\* String.prototype.includes: `t` occurs in `s` as a contiguous run
includes(s, t) ==
    \E i \in 0..(Len(s) - Len(t)) :
        \A j \in 1..Len(t) : s[i + j] = t[j]

----------------------------------------------------------------------------
(* The built-in table, app-config-mapping.ts lines 19-76 *)

KeyGemini        == <<"g","e","m","i","n","i">>
KeyClaudeDesktop == <<"c","l","a","u","d","e"," ","d","e","s","k","t","o","p">>
KeyClaudeCode    == <<"c","l","a","u","d","e"," ","c","o","d","e">>
KeyVscode        == <<"v","s","c","o","d","e">>
KeyCursor        == <<"c","u","r","s","o","r">>

PathGemini        == <<"~", "/", ".gemini", "/", "settings.json">>
PathClaudeDesktop == <<"~", "/", "Library", "/", "Application Support", "/",
                       "Claude", "/", "claude_desktop_config.json">>
PathClaudeCode    == <<"~", "/", ".claude", "/">>
PathVscode        == <<"~", "/", ".vscode", "/", "mcp.json">>
PathCursor        == <<"~", "/", ".cursor", "/", "mcp.json">>

NoBundleId == "undefined"

Location(p, t, d, f) == [path |-> p, type |-> t, description |-> d, format |-> f]

APP_CONFIGS ==
    (KeyGemini :> [displayName |-> "Google Gemini", bundleId |-> NoBundleId,
        configs |-> << Location(PathGemini, "file",
                                "Gemini settings configuration", "json") >>])
 @@ (KeyClaudeDesktop :> [displayName |-> "Claude Desktop", bundleId |-> NoBundleId,
        configs |-> << Location(PathClaudeDesktop, "file",
                                "Claude Desktop configuration", "json") >>])
 @@ (KeyClaudeCode :> [displayName |-> "Claude Code", bundleId |-> NoBundleId,
        configs |-> << Location(PathClaudeCode, "directory",
                                "Claude Code configuration directory", "directory") >>])
 @@ (KeyVscode :> [displayName |-> "Visual Studio Code",
        bundleId |-> "com.microsoft.VSCode",
        configs |-> << Location(PathVscode, "file",
                                "VS Code MCP configuration", "json") >>])
 @@ (KeyCursor :> [displayName |-> "Cursor", bundleId |-> NoBundleId,
        configs |-> << Location(PathCursor, "file",
                                "Cursor MCP configuration", "json") >>])

\* Object.keys(APP_CONFIGS): the own keys in insertion order.  No operation
\* assigns a property of APP_CONFIGS itself, so the order never changes.
KeyOrder == <<KeyGemini, KeyClaudeDesktop, KeyClaudeCode, KeyVscode, KeyCursor>>

\* APP_CONFIGS is an object literal, so a property read that misses the own
\* keys goes on to Object.prototype.  Its all-lower-case properties:
\* `constructor` (the function Object) and `__proto__` (Object.prototype).
KeyConstructor == <<"c","o","n","s","t","r","u","c","t","o","r">>
KeyProto       == <<"_","_","p","r","o","t","o","_","_">>
InheritedKeys  == {KeyConstructor, KeyProto}

\* Once Object.prototype has been given a property `configs`, APP_CONFIGS
\* inherits it as well, under this name.
KeyConfigs == <<"c","o","n","f","i","g","s">>

\* the value `undefined` of a `configs` property
NoConfigs == [defined |-> FALSE, list |-> <<>>]

Configs(list) == [defined |-> TRUE, list |-> list]

\* An array of locations as a caller holds it: the object it is, and what it
\* holds.  Two `configs` properties may refer to one array object; what is
\* pushed through one of them is then in the list of the other.
Array(i, e) == [identity |-> i, elements |-> e]

\* An array is an object too: APP_CONFIGS['configs'] finds the array that
\* Object.prototype.configs is, and updateAppConfigs gives that array a
\* `configs` property of its own.  The array object of identity i is named
\* by i marks.
ArrayObject(i) == [j \in 1..i |-> "[]"]

\* Each entry of the object literal has an array of its own; the objects
\* APP_CONFIGS inherits have none (0).
InitialArrays ==
    [h \in DOMAIN APP_CONFIGS \cup InheritedKeys |->
        IF h \in DOMAIN APP_CONFIGS
        THEN CHOOSE i \in 1..Len(KeyOrder) : KeyOrder[i] = h
        ELSE 0]

----------------------------------------------------------------------------
(* The filesystem *)

\* os.homedir()
HomeDir == <<"/home/u">>

\* The names the paths of the model are written with, each with the
\* characters it stands for.  A path is the sequence of its names and
\* separators; its text is their characters one after the other.
Spelling ==
    ("~" :> <<"~">>)
 @@ ("/" :> <<"/">>)
 @@ (".gemini" :> <<".","g","e","m","i","n","i">>)
 @@ ("settings.json" :> <<"s","e","t","t","i","n","g","s",".","j","s","o",
        "n">>)
 @@ ("Library" :> <<"L","i","b","r","a","r","y">>)
 @@ ("Application Support" :> <<"A","p","p","l","i","c","a","t","i","o","n",
        " ","S","u","p","p","o","r","t">>)
 @@ ("Claude" :> <<"C","l","a","u","d","e">>)
 @@ ("claude_desktop_config.json" :> <<"c","l","a","u","d","e","_","d","e",
        "s","k","t","o","p","_","c","o","n","f","i","g",".","j","s","o","n">>)
 @@ (".claude" :> <<".","c","l","a","u","d","e">>)
 @@ (".vscode" :> <<".","v","s","c","o","d","e">>)
 @@ ("mcp.json" :> <<"m","c","p",".","j","s","o","n">>)
 @@ (".cursor" :> <<".","c","u","r","s","o","r">>)
 @@ ("rules" :> <<"r","u","l","e","s">>)
 @@ ("etc" :> <<"e","t","c">>)
 @@ ("ai.yaml" :> <<"a","i",".","y","a","m","l">>)
 @@ ("/home/u" :> <<"/","h","o","m","e","/","u">>)

RECURSIVE pathText(_)
pathText(path) ==
    IF path = <<>> THEN <<>> ELSE Spelling[Head(path)] \o pathText(Tail(path))

\* A node of the filesystem.  kind: what access() and stat() find at the path
\* ("absent": ENOENT, "denied": EACCES on the way to it); readable: whether
\* readFile / readdir succeed on it; content: the text of a file; entries: the
\* names readdir yields for a directory, in the order the system gives them.
Node(k, r, c, e) == [kind |-> k, readable |-> r, content |-> c, entries |-> e]

Absent == Node("absent", FALSE, <<>>, <<>>)
Denied == Node("denied", FALSE, <<>>, <<>>)

NodeAt(path) == IF path \in DOMAIN fs THEN fs[path] ELSE Absent

\* fs.access(path): resolves, or rejects when the path is missing or unreachable
accessOk(path) == NodeAt(path).kind \in {"file", "directory"}

\* fs.stat(path).isFile() / .isDirectory()
isFile(path) == NodeAt(path).kind = "file"
isDirectory(path) == NodeAt(path).kind = "directory"

----------------------------------------------------------------------------
(* Config Registry, app-config-mapping.ts *)

\* expandPath: path.replace(/^~/, homedir())
expandPath(path) ==
    IF Len(path) > 0 /\ path[1] = "~" THEN HomeDir \o Tail(path) ELSE path

\* getAvailableApps: Object.keys(this.APP_CONFIGS)
getAvailableApps == KeyOrder

\* The property read this.APP_CONFIGS[name]: the own entry, else the property
\* Object.prototype has under that name, else undefined.  The result is the
\* object found, named by where it lives.  Object.prototype has `constructor`
\* and `__proto__`, and `configs` once updateAppConfigs has assigned it: the
\* object found is then the array assigned.
Undefined == [ref |-> "undefined", name |-> <<>>]

\* the objects with a `configs` property of their own, assigned or not
Holders == DOMAIN arrays

lookup(name) ==
    IF name \in DOMAIN registry THEN [ref |-> "entry", name |-> name]
    ELSE IF name \in InheritedKeys THEN [ref |-> "inherited", name |-> name]
    ELSE IF name = KeyConfigs /\ inherited[KeyProto].defined
    THEN [ref |-> "array", name |-> ArrayObject(arrays[KeyProto])]
    ELSE Undefined

\* the object has a `configs` property of its own
hasOwnConfigs(app) ==
    IF app.ref = "entry" THEN TRUE
    ELSE app.name \in DOMAIN inherited /\ inherited[app.name].defined

\* a lookup that takes the key as it is spelled
getAppConfigExact(appKey) == lookup(appKey)

\* getAppConfig: this.APP_CONFIGS[appKey.toLowerCase()]
getAppConfig(appKey) == lookup(toLowerCase(appKey))

\* The property read app.configs.  An entry of the table has its own list.
\* Object (the `constructor`) and an array have their own `configs` once one
\* was assigned, and otherwise the one of Object.prototype, which they
\* inherit.
configsOf(app) ==
    CASE app.ref = "entry" -> Configs(registry[app.name].configs)
      [] app.ref \in {"inherited", "array"} ->
            IF hasOwnConfigs(app) THEN inherited[app.name]
            ELSE inherited[KeyProto]
      [] OTHER -> NoConfigs

\* a resolution that does not compare the kind found with the declared type
typeMatchesAny(config, expandedPath) ==
    isFile(expandedPath) \/ isDirectory(expandedPath)

\* findConfigsForApp, lines 101-116: whether one candidate is kept
typeMatches(config, expandedPath) ==
    \/ config.type = "file" /\ isFile(expandedPath)
    \/ config.type = "directory" /\ isDirectory(expandedPath)

keepConfig(config) ==
    LET expandedPath == expandPath(config.path)
    IN  accessOk(expandedPath) /\ typeMatches(config, expandedPath)

\* findConfigsForApp, lines 96-119: the loop over the candidates
validConfigs(configs) ==
    LET kept == SelectSeq(configs, keepConfig)
    IN  [i \in 1..Len(kept) |-> [kept[i] EXCEPT !.path = expandPath(kept[i].path)]]

Return(v) == [outcome |-> "return", value |-> v]
Throw(e)  == [outcome |-> "throw", value |-> e]

\* findConfigsForApp: an unknown key gives [], an object without an iterable
\* `configs` makes the for-of loop throw a TypeError
findConfigsForApp(appKey) ==
    LET appConfig == getAppConfig(appKey)
    IN  IF appConfig = Undefined THEN Return(<<>>)
        ELSE IF ~configsOf(appConfig).defined THEN Throw("TypeError")
        ELSE Return(validConfigs(configsOf(appConfig).list))

\* getAllAvailableConfigs: findConfigsForApp of every own key, in key order
getAllAvailableConfigs ==
    [i \in 1..Len(getAvailableApps) |->
        [configs |-> findConfigsForApp(getAvailableApps[i]).value,
         appKey |-> getAvailableApps[i]]]

\* The array a push through app.configs lands in: the own list of an entry,
\* the own `configs` of the inherited object, or else the one on
\* Object.prototype that it inherits.
holderOf(app) ==
    IF hasOwnConfigs(app) THEN app.name ELSE KeyProto

\* What a mutating operation leaves behind: the table, the inherited
\* `configs` properties, the array each property refers to, and whether it
\* returned or threw.
Effect(r, i, a, o) == [registry |-> r, inherited |-> i, arrays |-> a, outcome |-> o]

\* array.push(configLocation): every property that refers to the array has
\* the location at the end of its list
pushTo(identity, configLocation) ==
    Effect([g \in DOMAIN registry |->
                IF arrays[g] = identity
                THEN [registry[g] EXCEPT !.configs = Append(@, configLocation)]
                ELSE registry[g]],
           [g \in DOMAIN inherited |->
                IF arrays[g] = identity
                THEN [inherited[g] EXCEPT !.list = Append(@, configLocation)]
                ELSE inherited[g]],
           arrays, "return")

\* addConfigLocation: app.configs.push(configLocation) when the key finds an
\* object; the push throws a TypeError when that object has no `configs`
addConfigLocation(appKey, configLocation) ==
    LET app == lookup(toLowerCase(appKey))
    IN  IF app = Undefined THEN Effect(registry, inherited, arrays, "return")
        ELSE IF ~configsOf(app).defined
        THEN Effect(registry, inherited, arrays, "throw")
        ELSE pushTo(arrays[holderOf(app)], configLocation)

\* updateAppConfigs: app.configs = configs when the key finds an object.  The
\* property then refers to the caller's array itself (line 142).
updateAppConfigs(appKey, configs) ==
    LET app == lookup(toLowerCase(appKey))
    IN  IF app = Undefined THEN Effect(registry, inherited, arrays, "return")
        ELSE IF app.ref = "entry"
        THEN Effect([registry EXCEPT ![app.name].configs = configs.elements],
                    inherited,
                    [arrays EXCEPT ![app.name] = configs.identity], "return")
        ELSE Effect(registry,
                    (app.name :> Configs(configs.elements)) @@ inherited,
                    (app.name :> configs.identity) @@ arrays, "return")

\* The list at a holder now.
listAt(holder) ==
    IF holder \in DOMAIN registry THEN registry[holder].configs
    ELSE inherited[holder].list

\* A call of findConfigsForApp that has been started: the for-of loop of lines
\* 99-117 walks the array object it read from app.configs at line 99, and
\* sees what is pushed to that object while it waits.  `identity` is that
\* object, `holder` the property it was read from, and `live` says that the
\* property still refers to it: once updateAppConfigs has put another array
\* at the holder the loop goes on over the one it has.  `array` is what the
\* object held when the loop last looked, `position` the index of the
\* candidate the loop is at, 0 when the call has settled, `found` is
\* validConfigs so far, and `pending` is the await the loop waits at:
\* access (line 102) or stat (line 103).
Iteration(out, i, h, l, a, p, f, w) ==
    [outcome |-> out, identity |-> i, holder |-> h, live |-> l, array |-> a,
     position |-> p, found |-> f, pending |-> w]

NoIteration == Iteration("return", 0, <<>>, FALSE, <<>>, 0, <<>>, "none")

\* What the array walked holds now: the list of a property that refers to
\* it, or, when no property does any more, what it held when the last one
\* was assigned another array.
iterated(it) ==
    IF \E g \in Holders : arrays[g] = it.identity
    THEN listAt(CHOOSE g \in Holders : arrays[g] = it.identity)
    ELSE it.array

settledFind(it) == it.position = 0

\* findConfigsForApp, lines 91-102: from the call to the first await.  An
\* unknown key returns [], an object without an iterable `configs` makes the
\* for-of throw a TypeError, an empty list ends the loop at once.
startFind(appKey) ==
    LET appConfig == getAppConfig(appKey)
    IN  IF appConfig = Undefined THEN NoIteration
        ELSE IF ~configsOf(appConfig).defined
        THEN Iteration("throw", 0, <<>>, FALSE, <<>>, 0, "TypeError", "none")
        ELSE IF configsOf(appConfig).list = <<>>
        THEN Iteration("return", arrays[holderOf(appConfig)], holderOf(appConfig),
                       TRUE, <<>>, 0, <<>>, "none")
        ELSE Iteration("return", arrays[holderOf(appConfig)], holderOf(appConfig),
                       TRUE, configsOf(appConfig).list, 1, <<>>, "access")

\* the iterator hands out the next element of the array, and the loop waits
\* on its access, or the array has no more and the loop ends, which returns
\* validConfigs (line 119)
nextCandidate(it, configs) ==
    IF it.position < Len(configs)
    THEN [it EXCEPT !.array = configs, !.position = it.position + 1, !.pending = "access"]
    ELSE [it EXCEPT !.array = configs, !.position = 0, !.pending = "none"]

\* findConfigsForApp, lines 102-117: the await the loop waits at settles.
\* When access rejects the candidate is skipped (line 113), and else the loop
\* waits on stat; after stat the candidate is pushed to validConfigs when its
\* kind is the declared one.
stepFind(it) ==
    LET configs == iterated(it)
        config  == configs[it.position]
    IN  IF it.pending = "access"
        THEN IF accessOk(expandPath(config.path))
             THEN [it EXCEPT !.array = configs, !.pending = "stat"]
             ELSE nextCandidate(it, configs)
        ELSE IF typeMatches(config, expandPath(config.path))
        THEN nextCandidate(
                [it EXCEPT !.found = Append(@, [config EXCEPT !.path = expandPath(config.path)])],
                configs)
        ELSE nextCandidate(it, configs)

\* updateAppConfigs has assigned a property: a loop in progress keeps the
\* array it walks, which may no longer be the one of its holder.  `after` is
\* what the assignment leaves.
detach(it, after) ==
    IF settledFind(it) THEN it
    ELSE [it EXCEPT !.live = (after.arrays[it.holder] = it.identity),
                    !.array = iterated(it)]

\* getAllAvailableConfigs, lines 123-128, and the loop of list_apps, lines
\* 199-210.  Each turn of the loop over Object.keys calls findConfigsForApp
\* and awaits it; the await gives way also when the call has settled before
\* any wait on the filesystem.
Row(cs, k) == [configs |-> cs, appKey |-> k]

Gathering(p, i, r) == [pc |-> p, iter |-> i, rows |-> r]

\* the loop from the key after the rows gathered: it returns the rows after
\* the last key, and else calls findConfigsForApp for the next one
gatherFrom(rows) ==
    IF Len(rows) = Len(getAvailableApps) THEN Gathering("done", NoIteration, rows)
    ELSE Gathering("listing", startFind(getAvailableApps[Len(rows) + 1]), rows)

\* the loop is resumed with what the call awaited has settled to, or the
\* candidate that call waits on settles
gatherStep(it, rows) ==
    IF ~settledFind(it) THEN Gathering("listing", stepFind(it), rows)
    ELSE IF it.outcome = "throw" THEN Gathering("throw", it, rows)
    ELSE gatherFrom(Append(rows, Row(it.found, getAvailableApps[Len(rows) + 1])))

----------------------------------------------------------------------------
(* Inputs *)

KeyCursorMixed == <<"C","u","r","s","o","R">>
KeyNewApp      == <<"n","e","w","-","a","p","p">>

\* application keys callers pass
KeyInputs ==
    {KeyCursor, KeyCursorMixed, KeyNewApp, KeyConstructor, KeyProto, KeyConfigs}

\* the keys addConfigLocation is called with
AddKeyInputs == {KeyCursor, KeyCursorMixed, KeyNewApp, KeyConstructor, KeyProto}

\* the keys updateAppConfigs is called with
UpdateKeyInputs == {KeyCursor, KeyGemini, KeyProto, KeyConfigs}

PathRules == <<"~", "/", ".cursor", "/", "rules">>
PathEtc   == <<"/", "etc", "/", "ai.yaml">>

LocRules == Location(PathRules, "directory", "Cursor rules", "directory")
LocEtc   == Location(PathEtc, "file", "System-wide settings", "yaml")

\* locations callers append
LocInputs == {LocRules, LocEtc}

\* lists callers hand to updateAppConfigs as arrays of their own
ListInputs == {<<>>}

\* applications whose own array callers hand to updateAppConfigs
ShareInputs == {KeyCursor}

\* an array object that is none of those in use
freshIdentity ==
    1 + CHOOSE m \in 0..(Len(KeyOrder) + MaxMutations) :
            /\ \A g \in Holders : arrays[g] <= m
            /\ inflight.iter.identity <= m
            /\ \A n \in 0..(m - 1) :
                    (\E g \in Holders : arrays[g] > n) \/ inflight.iter.identity > n

\* getAppConfig(appKey).configs, as a caller gets hold of it
configsArray(appKey) ==
    Array(arrays[holderOf(getAppConfig(appKey))], configsOf(getAppConfig(appKey)).list)

\* the absolute paths the filesystem holds a node for; every other path is
\* absent (NodeAt)
FsPaths == {expandPath(PathCursor), expandPath(PathRules), expandPath(PathEtc)}

File(content) == Node("file", TRUE, content, <<>>)
Dir(entries)  == Node("directory", TRUE, <<>>, entries)

\* one node of each kind
KindNodes == {Absent, Denied, File(<<"{","}">>), Dir(<<>>)}

\* no call or request is followed.  A request followed is at `pc`: it waits
\* on a candidate of findConfigsForApp ("finding", or "listing" within the
\* loop over the keys), on its reads ("reading") or on the search of a config
\* ("searching"), or it has been answered ("done").
NoRequest ==
    [op |-> "none", key |-> <<>>, arg |-> <<>>, pc |-> "idle",
     iter |-> NoIteration, rows |-> <<>>, targets |-> <<>>, settled |-> <<>>,
     order |-> <<>>, since |-> 0]

\* a call of the Registry that waits on the filesystem
Pending(o, k, p, i, r) ==
    [NoRequest EXCEPT !.op = o, !.key = k, !.pc = p, !.iter = i, !.rows = r]

----------------------------------------------------------------------------
(* The Registry's public operations as actions *)

InitCommon ==
    /\ registry = APP_CONFIGS
    /\ inherited = [k \in InheritedKeys |-> NoConfigs]
    /\ arrays = InitialArrays
    /\ mutations = 0
    /\ call = Idle
    /\ resp = Idle
    /\ inflight = NoRequest

\* The filesystems the Registry is run on: each path with a node of the
\* declared kind or with one of the ways of not resolving (the other kind,
\* absent, not accessible).
InitRegistry ==
    /\ InitCommon
    /\ fs \in [FsPaths -> KindNodes]
    /\ \/ /\ fs[expandPath(PathCursor)] = File(<<"{","}">>)
          /\ fs[expandPath(PathRules)] = Dir(<<>>)
          /\ fs[expandPath(PathEtc)] = Denied
       \/ /\ fs[expandPath(PathCursor)] = Dir(<<>>)
          /\ fs[expandPath(PathRules)] = Absent
          /\ fs[expandPath(PathEtc)] = File(<<"{","}">>)

Query(c) ==
    /\ call' = c
    /\ UNCHANGED <<registry, inherited, arrays, fs, mutations, resp, inflight>>

GetAvailableApps ==
    Query(Call("getAvailableApps", <<>>, <<>>, "return", getAvailableApps))

GetAppConfig(appKey) ==
    Query(Call("getAppConfig", appKey, <<>>, "return", getAppConfig(appKey)))

\* findConfigsForApp is called: it returns or throws before any await, or it
\* is left waiting on access of its first candidate
FindConfigsForApp(appKey) ==
    \E it \in {startFind(appKey)} :
        IF settledFind(it)
        THEN Query(Call("findConfigsForApp", appKey, it, it.outcome, it.found))
        ELSE /\ inflight' = Pending("findConfigsForApp", appKey, "finding", it, <<>>)
             /\ UNCHANGED <<registry, inherited, arrays, fs, mutations, call, resp>>

\* the candidate a pending findConfigsForApp waits on settles; after the last
\* one the call returns
FindStep ==
    /\ inflight.op = "findConfigsForApp"
    /\ inflight.pc = "finding"
    /\ \E it \in {stepFind(inflight.iter)} :
          IF settledFind(it)
          THEN /\ call' = Call("findConfigsForApp", inflight.key, it, "return", it.found)
               /\ inflight' = NoRequest
          ELSE /\ inflight' = [inflight EXCEPT !.iter = it]
               /\ call' = call
    /\ UNCHANGED <<registry, inherited, arrays, fs, mutations, resp>>

\* what a loop over the keys leaves: the call goes on waiting, returns its
\* rows, or throws
Gathered(op, g) ==
    /\ inflight' = IF g.pc = "listing" THEN Pending(op, <<>>, "listing", g.iter, g.rows)
                   ELSE IF inflight.op = op THEN NoRequest ELSE inflight
    /\ call' = IF g.pc = "listing" THEN call
               ELSE IF g.pc = "done" THEN Call(op, <<>>, <<>>, "return", g.rows)
               ELSE Call(op, <<>>, <<>>, "throw", g.iter.found)
    /\ UNCHANGED <<registry, inherited, arrays, fs, mutations, resp>>

\* getAllAvailableConfigs is called
GetAllAvailableConfigs ==
    \E g \in {gatherFrom(<<>>)} : Gathered("getAllAvailableConfigs", g)

\* the candidate a pending getAllAvailableConfigs waits on settles
GetAllStep ==
    /\ inflight.op = "getAllAvailableConfigs"
    /\ inflight.pc = "listing"
    /\ \E g \in {gatherStep(inflight.iter, inflight.rows)} :
          Gathered("getAllAvailableConfigs", g)

\* The mutating operations run to their end without an await; a pending loop
\* over the array that updateAppConfigs replaces keeps the array it has.
Mutate(effect, c, pending) ==
    /\ mutations < MaxMutations
    /\ registry' = effect.registry
    /\ inherited' = effect.inherited
    /\ arrays' = effect.arrays
    /\ mutations' = IF <<registry', inherited', arrays'>> = <<registry, inherited, arrays>>
                    THEN mutations ELSE mutations + 1
    /\ call' = c
    /\ inflight' = pending
    /\ UNCHANGED <<fs, resp>>

AddConfigLocation(appKey, configLocation) ==
    Mutate(addConfigLocation(appKey, configLocation),
           Call("addConfigLocation", appKey, configLocation,
                addConfigLocation(appKey, configLocation).outcome, <<>>),
           inflight)

UpdateAppConfigs(appKey, configs) ==
    Mutate(updateAppConfigs(appKey, configs),
           Call("updateAppConfigs", appKey, configs.elements,
                updateAppConfigs(appKey, configs).outcome, <<>>),
           [inflight EXCEPT !.iter = detach(@, updateAppConfigs(appKey, configs))])

NextRegistry ==
    \/ GetAvailableApps
    \/ \E k \in KeyInputs : GetAppConfig(k)
    \/ \E k \in KeyInputs : FindConfigsForApp(k)
    \/ FindStep
    \/ GetAllAvailableConfigs
    \/ GetAllStep
    \/ \E k \in AddKeyInputs, l \in LocInputs : AddConfigLocation(k, l)
    \/ \E k \in UpdateKeyInputs, cs \in ListInputs :
            UpdateAppConfigs(k, Array(freshIdentity, cs))
    \/ \E k \in UpdateKeyInputs, k2 \in ShareInputs : UpdateAppConfigs(k, configsArray(k2))

SpecRegistry == InitRegistry /\ [][NextRegistry]_vars

----------------------------------------------------------------------------
(* Config Reader, config-reader.ts *)

\* the characters of the model in ascending order of their UTF-16 code unit,
\* the order Array.prototype.sort compares strings by
CodeOrder ==
    <<"\t", "\n", "\r", " ", "\"", "-", ".", "/", "0", "1", "2", "3", "4", "5",
      "6", "7", "8", "9", ":", "<", "=", ">">> \o Upper \o <<"[", "]", "_">>
      \o Lower \o <<"{", "}">>

CodeUnit(c) == CHOOSE i \in 1..Len(CodeOrder) : CodeOrder[i] = c

\* a < b as JavaScript compares two strings
stringLess(a, b) ==
    \E i \in 1..(Len(a) + 1) :
        /\ i <= Len(b)
        /\ \A j \in 1..(i - 1) : a[j] = b[j]
        /\ (i = Len(a) + 1 \/ CodeUnit(a[i]) < CodeUnit(b[i]))

RECURSIVE insertSorted(_, _)
insertSorted(sorted, x) ==
    IF sorted = <<>> THEN <<x>>
    ELSE IF stringLess(x, Head(sorted)) THEN <<x>> \o sorted
    ELSE <<Head(sorted)>> \o insertSorted(Tail(sorted), x)

\* Array.prototype.sort() with the default comparison
RECURSIVE sort(_)
sort(list) ==
    IF list = <<>> THEN <<>> ELSE insertSorted(sort(Tail(list)), Head(list))

\* String.prototype.startsWith
startsWith(s, t) == Len(t) <= Len(s) /\ \A i \in 1..Len(t) : s[i] = t[i]

\* Array.prototype.join
RECURSIVE join(_, _)
join(list, sep) ==
    IF list = <<>> THEN <<>>
    ELSE IF Len(list) = 1 THEN list[1]
    ELSE list[1] \o sep \o join(Tail(list), sep)

\* String.prototype.split: the pieces between the occurrences of the one-
\* character separator; a string without it is its own single piece
RECURSIVE split(_, _)
split(s, sep) ==
    IF \E i \in 1..Len(s) : s[i] = sep
    THEN LET i == CHOOSE i \in 1..Len(s) :
                    s[i] = sep /\ \A j \in 1..(i - 1) : s[j] # sep
         IN  <<SubSeq(s, 1, i - 1)>> \o split(SubSeq(s, i + 1, Len(s)), sep)
    ELSE <<s>>

WhiteSpace == {" ", "\t", "\n", "\r"}

\* String.prototype.trim
RECURSIVE trimStart(_)
trimStart(s) ==
    IF s # <<>> /\ Head(s) \in WhiteSpace THEN trimStart(Tail(s)) ELSE s

RECURSIVE trimEnd(_)
trimEnd(s) ==
    IF s # <<>> /\ s[Len(s)] \in WhiteSpace THEN trimEnd(SubSeq(s, 1, Len(s) - 1)) ELSE s

trim(s) == trimEnd(trimStart(s))

Digit == <<"0", "1", "2", "3", "4", "5", "6", "7", "8", "9">>

\* the decimal text of a natural number, as a template literal prints it
RECURSIVE numberToString(_)
numberToString(n) ==
    IF n < 10 THEN <<Digit[n + 1]>>
    ELSE numberToString(n \div 10) \o <<Digit[(n % 10) + 1]>>

\* the texts of the files of the model
TextJson   == <<"{", "\"", "T", "h", "e", "m", "e", "\"", ":", "\n", "1", "}">>
TextZero   == <<"0">>
TextYaml   == <<" ", "T", "h", "e", "m", "e", ":", " ", "1", " ", "\n",
                "b", ":", " ", "2", "\n", "t", "H", "E", "M", "E", "s", ":", " ", "3">>
TextBroken == <<"{", "\"", "t", "h", "e", "m", "e", "\"", ":", "\n", " ", "1", " ">>
TextPlist  == <<"<", "p", "l", "i", "s", "t", ">", "<", "t", "r", "u", "e", "/", ">",
                "<", "/", "p", "l", "i", "s", "t", ">">>
TextEmpty  == <<>>
TextFalseJson  == <<"f", "a", "l", "s", "e", "\n">>
TextFalsePlist == <<"<", "p", "l", "i", "s", "t", ">", "<", "f", "a", "l", "s", "e", "/", ">",
                    "<", "/", "p", "l", "i", "s", "t", ">">>

Texts == {TextJson, TextZero, TextYaml, TextBroken, TextPlist, TextEmpty}

\* a parsed value: whether `parsed` is defined, whether it is truthy, and the
\* value (a directory's list as its names, any other value as its JSON text)
NoParsed == [defined |-> FALSE, truthy |-> FALSE, items |-> <<>>]
Parsed(t, v) == [defined |-> TRUE, truthy |-> t, items |-> v]

\* What the parser of a format does with a text.  JSON.parse, plist.parse and
\* yaml.load are libraries; the model gives their verdict on each text of the
\* model: the value returned, or the message of the exception thrown.
parseJson(content) ==
    CASE content = TextJson -> Return(Parsed(TRUE, <<<<"{", "\"", "T", "h", "e", "m", "e",
                                                        "\"", ":", "1", "}">>>>))
      [] content = TextZero -> Return(Parsed(FALSE, <<<<"0">>>>))
      [] content = TextFalseJson -> Return(Parsed(FALSE, <<<<"f", "a", "l", "s", "e">>>>))
      [] OTHER -> Throw("Unexpected token in JSON")

parsePlist(content) ==
    CASE content = TextPlist -> Return(Parsed(TRUE, <<<<"t", "r", "u", "e">>>>))
      [] content = TextFalsePlist -> Return(Parsed(FALSE, <<<<"f", "a", "l", "s", "e">>>>))
      [] OTHER -> Throw("Invalid plist")

\* a text of two or more lines that are numbers: to YAML one plain scalar
\* that runs over several lines
NumberLines(content) ==
    /\ Len(split(content, "\n")) > 1
    /\ \A i \in 1..Len(split(content, "\n")) :
        /\ split(content, "\n")[i] # <<>>
        /\ \A j \in 1..Len(split(content, "\n")[i]) :
            \E d \in 1..Len(Digit) : split(content, "\n")[i][j] = Digit[d]

\* the JSON text of a string without characters to escape
quoted(s) == <<"\"">> \o s \o <<"\"">>

parseYaml(content) ==
    CASE content = TextJson -> Return(Parsed(TRUE, <<<<"{", "\"", "T", "h", "e", "m", "e",
                                                        "\"", ":", "1", "}">>>>))
      [] content = TextZero -> Return(Parsed(FALSE, <<<<"0">>>>))
      [] content = TextFalseJson -> Return(Parsed(FALSE, <<<<"f", "a", "l", "s", "e">>>>))
      [] content = TextYaml ->
            Throw("end of the stream or a document separator is expected")
      [] content \in {TextPlist, TextFalsePlist} -> Return(Parsed(TRUE, <<quoted(content)>>))
      [] content = TextEmpty -> Return(NoParsed)
      [] NumberLines(content) ->
            Return(Parsed(TRUE, <<quoted(join(split(content, "\n"), <<" ">>))>>))
      [] OTHER -> Throw("unexpected end of the stream within a flow collection")

\* readFile, lines 41-58: the switch on the format
parseAs(format, content) ==
    CASE format = "json" -> parseJson(content)
      [] format = "plist" -> parsePlist(content)
      [] format = "yaml" -> parseYaml(content)
      [] OTHER -> Return(NoParsed)

\* the `error` of a ConfigContent that has none
NoError == "undefined"

\* `if (configContent.error)`: undefined and the empty string are falsy
truthyError(e) == e \notin {NoError, ""}

ConfigContent(p, c, f, pv, e) ==
    [path |-> p, format |-> f, content |-> c, parsed |-> pv, error |-> e]

\* fs.readFile(path, 'utf-8'): the text, or the rejection
fsReadFile(path) ==
    LET node == NodeAt(path)
    IN  CASE node.kind = "absent" -> Throw("ENOENT: no such file or directory")
          [] node.kind = "denied" -> Throw("EACCES: permission denied")
          [] ~node.readable -> Throw("EACCES: permission denied")
          [] node.kind = "directory" ->
                Throw("EISDIR: illegal operation on a directory")
          [] OTHER -> Return(node.content)

\* fs.readdir(path): the names, or the rejection
fsReaddir(path) ==
    LET node == NodeAt(path)
    IN  CASE node.kind = "absent" -> Throw("ENOENT: no such file or directory")
          [] node.kind = "denied" -> Throw("EACCES: permission denied")
          [] node.kind = "file" -> Throw("ENOTDIR: not a directory")
          [] ~node.readable -> Throw("EACCES: permission denied")
          [] OTHER -> Return(node.entries)

\* a readFile that gives up on a file it cannot parse
readFileStrict(configLocation) ==
    LET read == fsReadFile(configLocation.path)
        parse == parseAs(configLocation.format, read.value)
    IN  IF read.outcome = "throw" THEN read
        ELSE IF parse.outcome = "throw" THEN Throw("Parse error: " \o parse.value)
        ELSE Return(ConfigContent(configLocation.path, read.value,
                                  configLocation.format, parse.value, NoError))

\* readFile: the text, its parsed value, and the parse error if parsing threw
readFile(configLocation) ==
    LET read == fsReadFile(configLocation.path)
        parse == parseAs(configLocation.format, read.value)
    IN  IF read.outcome = "throw" THEN read
        ELSE IF parse.outcome = "throw"
        THEN Return(ConfigContent(configLocation.path, read.value, configLocation.format,
                                  NoParsed, "Parse error: " \o parse.value))
        ELSE Return(ConfigContent(configLocation.path, read.value,
                                  configLocation.format, parse.value, NoError))

DirectoryHeader ==
    <<"D", "i", "r", "e", "c", "t", "o", "r", "y", " ",
      "c", "o", "n", "t", "e", "n", "t", "s", ":", "\n">>

\* readDirectory, line 66: entries.filter(entry => !entry.startsWith('.')).sort()
fileListOf(entries) ==
    sort(SelectSeq(entries, LAMBDA entry : ~startsWith(entry, <<".">>)))

\* readDirectory: the listing of the visible entries, or the error inline
readDirectory(configLocation) ==
    LET read == fsReaddir(configLocation.path)
        fileList == fileListOf(read.value)
    IN  IF read.outcome = "throw"
        THEN Return(ConfigContent(configLocation.path, <<>>, "directory",
                                  NoParsed, read.value))
        ELSE Return(ConfigContent(
                configLocation.path,
                DirectoryHeader
                    \o join([i \in 1..Len(fileList) |-> <<" ", " ">> \o fileList[i]],
                            <<"\n">>),
                "directory", Parsed(TRUE, fileList), NoError))

\* readConfig: readDirectory or readFile by the declared type; whatever they
\* throw is caught and returned as a ConfigContent with empty content
readConfig(configLocation) ==
    LET inner == IF configLocation.type = "directory"
                 THEN readDirectory(configLocation)
                 ELSE readFile(configLocation)
    IN  IF inner.outcome = "throw"
        THEN Return(ConfigContent(configLocation.path, <<>>, configLocation.format,
                                  NoParsed, inner.value))
        ELSE inner

\* the match string `Line ${index + 1}: ${line.trim()}`
matchString(index, line) ==
    <<"L", "i", "n", "e", " ">> \o numberToString(index + 1) \o <<":", " ">> \o trim(line)

\* a search that compares the line with the term as they are written
searchInConfigCaseSensitive(configLocation, searchTerm) ==
    LET configContent == readConfig(configLocation).value
        lines == split(configContent.content, "\n")
        hits == SelectSeq([i \in 1..Len(lines) |-> i],
                          LAMBDA i : includes(lines[i], searchTerm))
    IN  IF readConfig(configLocation).outcome = "throw" THEN Return(<<>>)
        ELSE IF truthyError(configContent.error) THEN Return(<<>>)
        ELSE Return([j \in 1..Len(hits) |-> matchString(hits[j] - 1, lines[hits[j]])])

\* searchInConfig: the match strings of the lines that include the term,
\* both lower-cased; nothing when readConfig reported an error
searchInConfig(configLocation, searchTerm) ==
    LET configContent == readConfig(configLocation).value
        lines == split(configContent.content, "\n")
        hits == SelectSeq([i \in 1..Len(lines) |-> i],
                          LAMBDA i : includes(toLowerCase(lines[i]),
                                              toLowerCase(searchTerm)))
    IN  IF readConfig(configLocation).outcome = "throw" THEN Return(<<>>)
        ELSE IF truthyError(configContent.error) THEN Return(<<>>)
        ELSE Return([j \in 1..Len(hits) |-> matchString(hits[j] - 1, lines[hits[j]])])

----------------------------------------------------------------------------
(* The Reader's operations as actions *)

NameA      == <<"a", ".", "j", "s", "o", "n">>
NameB      == <<"b", ".", "t", "x", "t">>
NameHidden == <<".", "h", "i", "d", "d", "e", "n">>
NameTheme  == <<"T", "h", "e", "m", "e", "s">>

EntriesInputs == <<NameB, NameHidden, NameA, NameTheme>>

\* the nodes a read may meet: nothing, an unreachable path, a file of each
\* text, a file and a directory that cannot be read, a directory, an empty one
ReaderNodes ==
    {Absent, Denied, Node("file", FALSE, TextJson, <<>>),
     Node("directory", FALSE, <<>>, EntriesInputs), Dir(EntriesInputs), Dir(<<>>)}
    \cup {File(t) : t \in Texts}

Formats == {"json", "plist", "yaml", "text", "directory"}

Types == {"file", "directory"}

\* the locations handed to the Reader: a path the filesystem may hold, with
\* every declared type and format
ReaderLocs ==
    {Location(expandPath(PathCursor), t, "Cursor MCP configuration", f) :
        t \in Types, f \in Formats}
    \cup {Location(expandPath(PathRules), "directory", "Cursor rules", "directory")}

TermLower == <<"t", "h", "e", "m", "e">>
TermUpper == <<"T", "H", "E", "M", "E">>
TermMixed == <<"T", "h", "e", "m", "e">>
TermColon == <<":", " ">>
TermNone  == <<"z", "z">>

\* search terms; the empty term is included in every line
TermInputs == {TermLower, TermUpper, TermMixed, TermColon, TermNone, <<>>}

InitReader ==
    /\ InitCommon
    /\ fs \in [FsPaths -> ReaderNodes]
    /\ fs[expandPath(PathEtc)] = Absent
    /\ fs[expandPath(PathRules)] \in {Absent, Dir(EntriesInputs)}

ReadConfig(configLocation) ==
    Query(Call("readConfig", <<>>, configLocation,
               readConfig(configLocation).outcome, readConfig(configLocation).value))

SearchInConfig(configLocation, searchTerm) ==
    Query(Call("searchInConfig", searchTerm, configLocation,
               searchInConfig(configLocation, searchTerm).outcome,
               searchInConfig(configLocation, searchTerm).value))

NextReader ==
    \/ \E l \in ReaderLocs : ReadConfig(l)
    \/ \E l \in ReaderLocs, t \in TermInputs : SearchInConfig(l, t)

SpecReader == InitReader /\ [][NextReader]_vars

----------------------------------------------------------------------------
(* formatConfigForDisplay, config-reader.ts lines 107-131 *)

\* the number of lines of raw text shown in full
DisplayLines == 50

\* The text shown for a ConfigContent.  The header line of the path and the
\* line of the format are kept as fields; `body` is the text that follows
\* them.  For an error the text is the one line "Error reading <path>: <error>".
Display(p, f, b, e) == [path |-> p, format |-> f, error |-> e, body |-> b]

\* "\n\n... (showing first 50 lines of N total lines)"
truncationNotice(total) ==
    <<"\n", "\n", ".", ".", ".", " ", "(", "s", "h", "o", "w", "i", "n", "g", " ",
      "f", "i", "r", "s", "t", " ">> \o numberToString(DisplayLines)
      \o <<" ", "l", "i", "n", "e", "s", " ", "o", "f", " ">> \o numberToString(total)
      \o <<" ", "t", "o", "t", "a", "l", " ", "l", "i", "n", "e", "s", ")">>

\* the line break and the indentation JSON.stringify puts before a member
\* at a depth
indentation(depth, space) == <<"\n">> \o [i \in 1..(depth * space) |-> " "]

\* JSON.stringify(value, null, space) of a value given by its JSON text
\* without white space: every member of an object or array that is not empty
\* on a line of its own, indented by its depth, and a space after each colon
RECURSIVE stringifyFrom(_, _, _, _)
stringifyFrom(s, depth, inString, space) ==
    IF s = <<>> THEN <<>>
    ELSE IF inString
    THEN <<Head(s)>> \o stringifyFrom(Tail(s), depth, Head(s) # "\"", space)
    ELSE IF Head(s) = "\""
    THEN <<Head(s)>> \o stringifyFrom(Tail(s), depth, TRUE, space)
    ELSE IF Head(s) \in {"{", "["} /\ Len(s) > 1 /\ s[2] \in {"}", "]"}
    THEN <<s[1], s[2]>> \o stringifyFrom(Tail(Tail(s)), depth, FALSE, space)
    ELSE IF Head(s) \in {"{", "["}
    THEN <<Head(s)>> \o indentation(depth + 1, space)
            \o stringifyFrom(Tail(s), depth + 1, FALSE, space)
    ELSE IF Head(s) \in {"}", "]"}
    THEN indentation(depth - 1, space) \o <<Head(s)>>
            \o stringifyFrom(Tail(s), depth - 1, FALSE, space)
    ELSE IF Head(s) = ","
    THEN <<",">> \o indentation(depth, space) \o stringifyFrom(Tail(s), depth, FALSE, space)
    ELSE IF Head(s) = ":"
    THEN <<":", " ">> \o stringifyFrom(Tail(s), depth, FALSE, space)
    ELSE <<Head(s)>> \o stringifyFrom(Tail(s), depth, FALSE, space)

stringify(value, space) == stringifyFrom(value.items[1], 0, FALSE, space)

formatConfigForDisplay(configContent) ==
    LET lines == split(configContent.content, "\n")
    IN  IF truthyError(configContent.error)
        THEN Display(configContent.path, "", <<>>, configContent.error)
        ELSE IF configContent.format = "directory"
        THEN Display(configContent.path, configContent.format,
                     configContent.content, NoError)
        ELSE IF configContent.parsed.truthy /\ configContent.format \in {"json", "plist"}
        THEN Display(configContent.path, configContent.format,
                     stringify(configContent.parsed, 2), NoError)
        ELSE IF Len(lines) > DisplayLines
        THEN Display(configContent.path, configContent.format,
                     join(SubSeq(lines, 1, DisplayLines), <<"\n">>)
                        \o truncationNotice(Len(lines)),
                     NoError)
        ELSE Display(configContent.path, configContent.format,
                     configContent.content, NoError)

----------------------------------------------------------------------------
(* The request handlers, index.ts *)

\* `const v = x; ... v ...`: F of the value of x
With(x, F(_)) == CHOOSE out \in {F(v) : v \in {x}} : TRUE

\* the text of a response: which message it is, the name it is about, and
\* the items it lists
Message(k, t, i) == [kind |-> k, items |-> i, title |-> t]

\* `appConfig?.displayName || app`
displayNameOf(app) ==
    IF getAppConfig(app).ref = "entry"
    THEN registry[getAppConfig(app).name].displayName
    ELSE app

\* list_apps, lines 212-222: the message made of the rows the loop gathered
listAppsResult(rows) ==
    Return(Message("apps", "Available applications",
        [i \in 1..Len(rows) |->
            [key |-> rows[i].appKey,
             displayName |-> displayNameOf(rows[i].appKey),
             bundleId |-> registry[rows[i].appKey].bundleId,
             configCount |-> Len(rows[i].configs),
             hasConfigs |-> Len(rows[i].configs) > 0]]))

\* list_apps, lines 196-223, when nothing else runs while it waits
listApps == listAppsResult(getAllAvailableConfigs)

\* find_config, lines 229-251: the message for what findConfigsForApp gave
findConfigResult(app, configs) ==
    IF configs.outcome = "throw" THEN configs
    ELSE IF Len(configs.value) = 0
    THEN Return(Message("no configurations", app, getAvailableApps))
    ELSE Return(Message("configurations", displayNameOf(app), configs.value))

\* find_config, lines 225-252, when nothing else runs while it waits
findConfig(app) == findConfigResult(app, findConfigsForApp(app))

\* read_config, lines 269-282: the configs read; `config_path` narrows them
\* when it is given and not empty
targetConfigs(configs, config_path) ==
    IF config_path = <<>> THEN configs
    ELSE SelectSeq(configs, LAMBDA c : includes(pathText(c.path), config_path))

\* search_config, lines 314-321: what one config adds to the results
searchResult(config, search_term) ==
    With(searchInConfig(config, search_term).value, LAMBDA matches :
        IF Len(matches) > 0
        THEN <<[path |-> config.path, description |-> config.description,
                matches |-> matches]>>
        ELSE <<>>)

\* search_config, lines 324-347: the message made of the results
searchAnswer(app, search_term, results) ==
    IF Len(results) = 0
    THEN Return(Message("no matches", app, <<>>))
    ELSE Return(Message("search results", app, results))

\* add_config_location, lines 350-376: the location is built from the
\* arguments as they are and appended
addConfigLocationTool(app, configLocation) ==
    LET effect == addConfigLocation(app, configLocation)
    IN  IF effect.outcome = "throw" THEN Effect(registry, inherited, arrays, "throw")
        ELSE effect

\* ReadResource, lines 55-62: uri.match(/^config:\/\/(.+)$/).  A URI is its
\* scheme prefix followed by the characters after it.
UriPrefix == "config://"

\* the characters that `.` does not match
LineTerminators == {"\n", "\r"}

\* the pattern wants at least one character after the prefix and none but
\* those `.` matches up to the end of the URI
uriMatches(uri) ==
    /\ Len(uri) > 1
    /\ uri[1] = UriPrefix
    /\ \A i \in 2..Len(uri) : uri[i] \notin LineTerminators

uriAppKey(uri) == Tail(uri)

\* an enumeration that offers every application of the table
resourcesOfAll(allConfigs) ==
    Return(Message("resources", "resources",
        [i \in 1..Len(allConfigs) |->
            [name |-> displayNameOf(allConfigs[i].appKey),
             uri |-> <<UriPrefix>> \o allConfigs[i].appKey]]))

\* ListResources, lines 37-51: the resources for what getAllAvailableConfigs
\* gave
resourcesOf(allConfigs) ==
    LET listed == SelectSeq(allConfigs, LAMBDA e :
                        getAppConfig(e.appKey) # Undefined /\ Len(e.configs) > 0)
    IN  Return(Message("resources", "resources",
            [i \in 1..Len(listed) |->
                [name |-> displayNameOf(listed[i].appKey),
                 uri |-> <<UriPrefix>> \o listed[i].appKey]]))

\* ListResources, lines 35-52, when nothing else runs while it waits
listResources == resourcesOf(getAllAvailableConfigs)

\* Promise.all over the reads, taken in the order the reads finished
promiseAllAsSettled(settled, order) == [i \in 1..Len(order) |-> settled[order[i]]]

\* Promise.all(targets.map(readConfig)): the i-th value is the one of the
\* i-th promise, whatever the order the promises settled in
promiseAll(settled, order) == [i \in 1..Len(order) |-> settled[i]]

----------------------------------------------------------------------------
(* The server.  A handler runs whenever a request comes in, and runs up to
   its next await.  The model follows one request that waits from the time it
   is taken to its answer, await by await; an await gives way also when what
   it waits for has settled already.  The requests that do not wait
   (add_config_location, an unknown tool, a resource read with a URI that
   does not match) run in between at any time.  A request that has to wait
   and comes in while another one is followed is followed in its place: the
   handlers that wait only read, so what one of them answers does not depend
   on the others in progress. *)

Failure(e) == Message("error", e, <<>>)

\* a request that has been taken; `since` is the number of changes the table
\* had seen by then
Request(o, k, a) ==
    [NoRequest EXCEPT !.op = o, !.key = k, !.arg = a, !.since = mutations]

\* what a handler has come to: either the answer to its request, or the
\* await it waits at
Outcome(r, p) == [resp |-> r, inflight |-> p]

Answer(p, out, v) ==
    Outcome(Call(p.op, p.key, p.arg, out, v), [p EXCEPT !.pc = "done"])

Reply(p, r) ==
    Answer(p, r.outcome, IF r.outcome = "throw" THEN Failure(r.value) ELSE r.value)

Await(p) == Outcome(Idle, p)

\* what findConfigsForApp hands to the handler that awaited it
settledAs(it) == [outcome |-> it.outcome, value |-> it.found]

\* read_config, lines 258-286, from the configs found to the start of the reads
readConfigFrom(p, configs) ==
    IF configs.outcome = "throw" THEN Reply(p, configs)
    ELSE IF Len(configs.value) = 0
    THEN Answer(p, "return", Message("no configurations", p.key, <<>>))
    ELSE IF Len(targetConfigs(configs.value, p.arg)) = 0
    THEN Answer(p, "return", Message("no matching path", p.key, <<>>))
    ELSE Await([p EXCEPT !.pc = "reading",
                         !.targets = targetConfigs(configs.value, p.arg)])

\* ReadResource, lines 65-71, from the configs found to the start of the reads
readResourceFrom(p, configs) ==
    IF configs.outcome = "throw" THEN Reply(p, configs)
    ELSE IF Len(configs.value) = 0
    THEN Answer(p, "throw", Failure("No configurations found for app"))
    ELSE Await([p EXCEPT !.pc = "reading", !.targets = configs.value])

\* search_config, lines 301-314, from the configs found to the first search
searchConfigFrom(p, configs) ==
    IF configs.outcome = "throw" THEN Reply(p, configs)
    ELSE IF Len(configs.value) = 0
    THEN Answer(p, "return", Message("no configurations", p.key, <<>>))
    ELSE Await([p EXCEPT !.pc = "searching", !.targets = configs.value])

\* the handler goes on after `await findConfigsForApp(...)`
afterFind(p, it) ==
    CASE p.op = "find_config" -> Reply(p, findConfigResult(p.key, settledAs(it)))
      [] p.op = "read_config" -> readConfigFrom(p, settledAs(it))
      [] p.op = "search_config" -> searchConfigFrom(p, settledAs(it))
      [] OTHER -> readResourceFrom(p, settledAs(it))

\* the handler calls findConfigsForApp and awaits it; the await gives way
\* also when the call has settled already
callFind(p, it) == Await([p EXCEPT !.pc = "finding", !.iter = it])

\* the handler goes on after the loop over the keys: ListResources lines
\* 37-51, list_apps lines 212-222
afterGather(p, g) ==
    IF g.pc = "listing" THEN Await([p EXCEPT !.pc = "listing", !.iter = g.iter, !.rows = g.rows])
    ELSE IF g.pc = "throw" THEN Answer(p, "throw", Failure(g.iter.found))
    ELSE IF p.op = "list_apps" THEN Reply([p EXCEPT !.rows = g.rows], listAppsResult(g.rows))
    ELSE Reply([p EXCEPT !.rows = g.rows], resourcesOf(g.rows))

LocRulesJson == Location(PathRules, "directory", "Cursor rules", "json")

\* the locations add_config_location is asked to add
ToolLocInputs == {LocRulesJson, LocEtc}

\* the config_path arguments of read_config: none, a part of a directory
\* name that two locations of cursor have in their path, a name that one of
\* them ends in, and a text that no path has
ConfigPathInputs ==
    {<<>>, <<"c","u","r","s","o","r">>, <<"r","u","l","e","s">>,
     <<"n","o","w","h","e","r","e">>}

SearchTermInputs == {TermLower, TermNone}

\* the URI of cursor followed by a line break
UriLineBreak == <<UriPrefix>> \o KeyCursor \o <<"\n">>

UriInputs ==
    {<<UriPrefix>> \o KeyCursor, <<UriPrefix>> \o KeyNewApp,
     <<UriPrefix>> \o KeyConstructor, <<"file://">> \o KeyCursor, <<UriPrefix>>,
     UriLineBreak}

ToolNameInputs == {"delete_config"}

\* the application strings of the requests: a known key in another case, an
\* unknown one, and the name of an inherited property
AppInputs == {KeyCursorMixed, KeyNewApp, KeyConstructor}

\* two filesystems: one where the built-in config of cursor reads and the
\* system-wide file is missing, one where the config cannot be read and the
\* system-wide file is there
InitServer ==
    /\ InitCommon
    /\ fs \in [FsPaths -> ReaderNodes]
    /\ fs[expandPath(PathRules)] = Dir(EntriesInputs)
    /\ \/ /\ fs[expandPath(PathCursor)] = File(TextJson)
          /\ fs[expandPath(PathEtc)] = Absent
       \/ /\ fs[expandPath(PathCursor)] = Node("file", FALSE, TextJson, <<>>)
          /\ fs[expandPath(PathEtc)] = File(TextYaml)

\* a request is taken and its handler runs to its first await, or to its
\* answer when it has nothing to wait for, which leaves the request in
\* progress where it is
Begin(o) ==
    /\ resp' = o.resp
    /\ inflight' = IF o.inflight.pc = "done" THEN inflight ELSE o.inflight
    /\ UNCHANGED <<registry, inherited, arrays, fs, mutations, call>>

\* the handler of the request followed runs from the await it waited at to
\* its next one or to its answer
Proceed(o) ==
    /\ resp' = IF o.inflight.pc = "done" THEN o.resp ELSE resp
    /\ inflight' = o.inflight
    /\ UNCHANGED <<registry, inherited, arrays, fs, mutations, call>>

ListResources ==
    \E o \in {afterGather(Request("ListResources", <<>>, <<>>), gatherFrom(<<>>))} : Begin(o)

ListApps ==
    \E o \in {afterGather(Request("list_apps", <<>>, <<>>), gatherFrom(<<>>))} : Begin(o)

FindConfig(app) ==
    \E o \in {callFind(Request("find_config", app, <<>>), startFind(app))} : Begin(o)

ReadConfigTool(app, config_path) ==
    \E o \in {callFind(Request("read_config", app, config_path), startFind(app))} : Begin(o)

SearchConfig(app, search_term) ==
    \E o \in {callFind(Request("search_config", app, search_term), startFind(app))} : Begin(o)

\* ReadResource, lines 54-65
ReadResource(uri) ==
    \E o \in {IF ~uriMatches(uri)
              THEN Answer(Request("ReadResource", uri, <<>>), "throw",
                          Failure("Invalid resource URI"))
              ELSE callFind(Request("ReadResource", uri, <<>>), startFind(uriAppKey(uri)))} :
        Begin(o)

\* the await that the findConfigsForApp of the request followed waits at
\* settles, or the handler is resumed with what the call has settled to
FindSettles ==
    /\ inflight.pc = "finding"
    /\ \E o \in {IF settledFind(inflight.iter) THEN afterFind(inflight, inflight.iter)
                  ELSE Await([inflight EXCEPT !.iter = stepFind(@)])} :
            Proceed(o)

\* the same within the loop over the keys of ListResources and list_apps
GatherSettles ==
    /\ inflight.pc = "listing"
    /\ inflight.op \in {"ListResources", "list_apps"}
    /\ \E o \in {afterGather(inflight, gatherStep(inflight.iter, inflight.rows))} :
        Proceed(o)

\* search_config, lines 313-347: the search of one config settles
SearchSettles ==
    /\ inflight.pc = "searching"
    /\ \E results \in {inflight.rows \o searchResult(Head(inflight.targets), inflight.arg)} :
        \E o \in {IF Len(inflight.targets) > 1
                  THEN Await([inflight EXCEPT !.targets = Tail(@), !.rows = results])
                  ELSE Reply([inflight EXCEPT !.targets = Tail(@), !.rows = results],
                             searchAnswer(inflight.key, inflight.arg, results))} :
            Proceed(o)

\* add_config_location has no await: it runs to its answer whatever else is
\* in progress
AddConfigLocationTool(app, configLocation) ==
    LET effect == addConfigLocationTool(app, configLocation)
    IN  /\ mutations < MaxMutations
        /\ registry' = effect.registry
        /\ inherited' = effect.inherited
        /\ arrays' = effect.arrays
        /\ mutations' = IF <<registry', inherited', arrays'>> = <<registry, inherited, arrays>>
                        THEN mutations ELSE mutations + 1
        /\ resp' = Call("add_config_location", app, configLocation, effect.outcome,
                        IF effect.outcome = "throw" THEN Failure("TypeError")
                        ELSE Message("added", app, <<configLocation>>))
        /\ UNCHANGED <<fs, call, inflight>>

\* default, lines 378-379: no await either
UnknownTool(name) ==
    /\ resp' = Call(name, <<>>, <<>>, "throw", Failure("Unknown tool"))
    /\ UNCHANGED <<registry, inherited, arrays, fs, mutations, call, inflight>>

\* one of the started reads settles
Settle(i) ==
    /\ inflight.pc = "reading"
    /\ i \in 1..Len(inflight.targets)
    /\ i \notin DOMAIN inflight.settled
    /\ readConfig(inflight.targets[i]).outcome = "return"
    /\ inflight' = [inflight EXCEPT
                        !.settled = @ @@ (i :> readConfig(inflight.targets[i]).value),
                        !.order = Append(@, i)]
    /\ UNCHANGED <<registry, inherited, arrays, fs, mutations, call, resp>>

AllSettled ==
    /\ inflight.pc = "reading"
    /\ DOMAIN inflight.settled = 1..Len(inflight.targets)

\* read_config after its reads, lines 284-294
CollectReadConfig ==
    LET results == promiseAll(inflight.settled, inflight.order)
    IN  /\ AllSettled
        /\ inflight.op = "read_config"
        /\ Proceed(Answer(inflight, "return",
                    Message("contents", inflight.key,
                        [i \in 1..Len(results) |-> formatConfigForDisplay(results[i])])))

\* ReadResource after its reads, lines 69-92
CollectReadResource ==
    LET configContents == promiseAll(inflight.settled, inflight.order)
    IN  /\ AllSettled
        /\ inflight.op = "ReadResource"
        /\ Proceed(Answer(inflight, "return",
                    Message("resource", displayNameOf(uriAppKey(inflight.key)),
                            configContents)))

NextServer ==
    \/ ListResources
    \/ \E uri \in UriInputs : ReadResource(uri)
    \/ ListApps
    \/ \E app \in AppInputs : FindConfig(app)
    \/ \E app \in AppInputs, config_path \in ConfigPathInputs : ReadConfigTool(app, config_path)
    \/ \E app \in AppInputs, t \in SearchTermInputs : SearchConfig(app, t)
    \/ \E app \in AppInputs, l \in ToolLocInputs : AddConfigLocationTool(app, l)
    \/ \E n \in ToolNameInputs : UnknownTool(n)
    \/ FindSettles
    \/ GatherSettles
    \/ SearchSettles
    \/ \E i \in 1..Len(inflight.targets) : Settle(i)
    \/ CollectReadConfig
    \/ CollectReadResource

SpecServer == InitServer /\ [][NextServer]_vars

----------------------------------------------------------------------------
(* The two requests that read concurrently, with add_config_location in
   between *)

\* the applications of the requests: a known key in another case and an
\* unknown one
ReadAppInputs == {KeyCursorMixed, KeyNewApp}

\* the URI of the known application, one that is no config:// URI and one
\* with a line break
ReadUriInputs == {<<UriPrefix>> \o KeyCursor, <<"file://">> \o KeyCursor, UriLineBreak}

NextReads ==
    \/ \E uri \in ReadUriInputs : ReadResource(uri)
    \/ \E app \in ReadAppInputs, config_path \in ConfigPathInputs :
            ReadConfigTool(app, config_path)
    \/ \E app \in ReadAppInputs, l \in LocInputs : AddConfigLocationTool(app, l)
    \/ FindSettles
    \/ \E i \in 1..Len(inflight.targets) : Settle(i)
    \/ CollectReadConfig
    \/ CollectReadResource

SpecReads == InitServer /\ [][NextReads]_vars

----------------------------------------------------------------------------
(* The resource interface alone, over filesystems where two applications of
   the table may or may not have their configuration *)

ResourcePaths == FsPaths \cup {expandPath(PathGemini)}

ResourceUriInputs == UriInputs \cup {<<UriPrefix>> \o KeyGemini}

\* the applications add_config_location is asked to add to: the last key of
\* the table and one before it
ResourceAppInputs == {KeyCursorMixed, KeyGemini}

InitResources ==
    /\ InitCommon
    /\ fs \in [ResourcePaths -> {Absent, File(TextJson), File(TextBroken),
                                 Node("file", FALSE, TextJson, <<>>), Dir(EntriesInputs)}]
    /\ fs[expandPath(PathCursor)] \in {Absent, File(TextJson), Node("file", FALSE, TextJson, <<>>)}
    /\ fs[expandPath(PathGemini)] \in {Absent, File(TextBroken)}
    /\ fs[expandPath(PathRules)] \in {Absent, Dir(EntriesInputs)}
    /\ fs[expandPath(PathEtc)] = Absent

NextResources ==
    \/ ListResources
    \/ \E uri \in ResourceUriInputs : ReadResource(uri)
    \/ \E app \in ResourceAppInputs, l \in ToolLocInputs : AddConfigLocationTool(app, l)
    \/ FindSettles
    \/ GatherSettles
    \/ \E i \in 1..Len(inflight.targets) : Settle(i)
    \/ CollectReadResource

SpecResources == InitResources /\ [][NextResources]_vars

----------------------------------------------------------------------------
(* formatConfigForDisplay over what readConfig returns *)

\* a text of n lines, the i-th line being the number i, without a final
\* line break
TextLines(n) == join([i \in 1..n |-> numberToString(i)], <<"\n">>)

\* texts that parse to truthy and to falsy values, texts that do not parse,
\* and texts at, just over and well over the number of lines shown in full
DisplayTexts ==
    {TextJson, TextZero, TextYaml, TextBroken, TextPlist, TextFalseJson, TextFalsePlist,
     TextLines(DisplayLines), TextLines(DisplayLines + 1), TextLines(DisplayLines + 10)}

DisplayNodes ==
    {Absent, Node("file", FALSE, TextJson, <<>>), Dir(EntriesInputs)}
    \cup {File(t) : t \in DisplayTexts}

InitDisplay ==
    /\ InitCommon
    /\ fs \in [FsPaths -> DisplayNodes]
    /\ fs[expandPath(PathEtc)] = Absent
    /\ fs[expandPath(PathRules)] \in {Absent, Dir(EntriesInputs)}

FormatConfigForDisplay(configLocation) ==
    \E configContent \in {readConfig(configLocation).value} :
        Query(Call("formatConfigForDisplay", <<>>, configContent, "return",
                   formatConfigForDisplay(configContent)))

NextDisplay == \E l \in ReaderLocs : FormatConfigForDisplay(l)

SpecDisplay == InitDisplay /\ [][NextDisplay]_vars

----------------------------------------------------------------------------
(* Vocabulary of the claims *)

IsPrefix(s, t) == Len(s) <= Len(t) /\ \A i \in 1..Len(s) : s[i] = t[i]

EqualsIgnoringCase(a, b) == toLowerCase(a) = toLowerCase(b)

\* the key names an application of the table, whatever its letter case
KnownKey(k) == \E a \in DOMAIN registry : EqualsIgnoringCase(k, a)

\* the table key a known key stands for
TableKey(k) == CHOOSE a \in DOMAIN registry : EqualsIgnoringCase(k, a)

\* the candidate exists on disk with the kind it declares
Resolvable(config) == NodeAt(expandPath(config.path)).kind = config.type

Resolved(config) == [config EXCEPT !.path = expandPath(config.path)]

\* how many of the first i candidates are resolvable
Rank(configs, i) == Cardinality({j \in 1..i : Resolvable(configs[j])})

\* `result` is exactly the resolvable candidates of `configs`, resolved, in
\* their order of declaration
ExactlyTheResolvable(result, configs) ==
    /\ Len(result) = Rank(configs, Len(configs))
    /\ \A i \in 1..Len(configs) :
          Resolvable(configs[i]) => result[Rank(configs, i)] = Resolved(configs[i])

----------------------------------------------------------------------------
(* Claims about the Registry, checked under SpecRegistry *)

\* a step in which the Registry operation `op` ran to its end
Runs(op) ==
    /\ call'.op = op
    /\ <<registry, inherited, call>>' # <<registry, inherited, call>>

\* C1: for a known application key, findConfigsForApp returns exactly the
\* candidates whose expanded path exists with the declared kind, each with its
\* path expanded, in declaration order; the others are left out.  The
\* candidates are those of the list the call walked, which is the list of the
\* application when the call returns, appends made while it waited included,
\* unless updateAppConfigs replaced that list while the call waited; and while
\* the call waits, what it has gathered is exactly that of the candidates
\* before the one it waits on.
C1_ResolveExact ==
    /\ (call.op = "findConfigsForApp" /\ KnownKey(call.key)) =>
            /\ call.outcome = "return"
            /\ ExactlyTheResolvable(call.value, call.arg.array)
            /\ call.arg.holder = TableKey(call.key)
            /\ call.arg.live => call.arg.array = registry[TableKey(call.key)].configs
    /\ (inflight.op = "findConfigsForApp" /\ KnownKey(inflight.key)) =>
            /\ inflight.iter.holder = TableKey(inflight.key)
            /\ inflight.iter.position \in 1..Len(iterated(inflight.iter))
            /\ ExactlyTheResolvable(inflight.iter.found,
                    SubSeq(iterated(inflight.iter), 1, inflight.iter.position - 1))

\* a resolution of three candidates that keeps two and leaves one out, the
\* third candidate appended while the call waited on an earlier one
C1_Witness ==
    /\ call.op = "findConfigsForApp"
    /\ KnownKey(call.key)
    /\ call.arg.live
    /\ Len(registry[TableKey(call.key)].configs) = 3
    /\ Len(call.value) = 2
    /\ mutations = 2

\* C2 as stated: addConfigLocation for a known key appends the location to
\* that application's list and to nothing else, so the resolution of the key
\* is the previous resolution followed by the new location when it resolves;
\* for a key that names no application the table is left as it was.
C2_AppendOnly ==
    [][Runs("addConfigLocation") =>
        \A k \in {call'.key}, l \in {call'.arg} :
            IF KnownKey(k)
            THEN /\ registry'[TableKey(k)].configs
                        = Append(registry[TableKey(k)].configs, l)
                 /\ \A a \in DOMAIN registry \ {TableKey(k)} : registry'[a] = registry[a]
                 /\ DOMAIN registry' = DOMAIN registry
                 /\ findConfigsForApp(k)'.value
                        = findConfigsForApp(k).value
                            \o (IF Resolvable(l) THEN <<Resolved(l)>> ELSE <<>>)
            ELSE registry' = registry
      ]_vars

\* C3 as stated: no operation of the Registry removes, replaces or updates a
\* location, so every step leaves each list a prefix of the later one, and the
\* keys are the built-in ones.
C3_PrefixAlways ==
    [][/\ DOMAIN registry' = DOMAIN APP_CONFIGS
       /\ \A a \in DOMAIN registry :
            IsPrefix(registry[a].configs, registry'[a].configs)
      ]_vars

\* C7 as stated: a key that names no application gets the not-found signal
\* from getAppConfig and the empty sequence from findConfigsForApp, and
\* neither throws.
C7_UnknownKeyEmpty ==
    /\ (call.op = "getAppConfig" /\ ~KnownKey(call.key)) =>
            call.outcome = "return" /\ call.value = Undefined
    /\ (call.op = "findConfigsForApp" /\ ~KnownKey(call.key)) =>
            call.outcome = "return" /\ call.value = <<>>

\* C8: keys that differ only in letter case get the same entry and the same
\* resolution, an append under one spelling is seen under the others, and no
\* two keys of the table are equal ignoring case.
C8_CaseInsensitive ==
    /\ \A k1 \in KeyInputs : \A k2 \in KeyInputs \ {k1} :
          EqualsIgnoringCase(k1, k2) =>
              /\ getAppConfig(k1) = getAppConfig(k2)
              /\ findConfigsForApp(k1) = findConfigsForApp(k2)
    /\ (call.op \in {"getAppConfig", "findConfigsForApp"} /\ KnownKey(call.key)) =>
          \A k2 \in KeyInputs :
              EqualsIgnoringCase(call.key, k2) =>
                  IF call.op = "getAppConfig" THEN call.value = getAppConfig(k2)
                  ELSE /\ call.arg.holder = holderOf(getAppConfig(k2))
                       /\ call.arg.live => call.value = findConfigsForApp(k2).value
    /\ (call.op = "addConfigLocation" /\ KnownKey(call.key)) =>
          \A k2 \in KeyInputs :
              EqualsIgnoringCase(call.key, k2) =>
                  /\ getAppConfig(k2) = [ref |-> "entry", name |-> TableKey(call.key)]
                  /\ configsOf(getAppConfig(k2)).list # <<>>
                  /\ configsOf(getAppConfig(k2)).list[Len(configsOf(getAppConfig(k2)).list)]
                        = call.arg
    /\ \A a, b \in DOMAIN registry : EqualsIgnoringCase(a, b) => a = b

\* an append made under the mixed-case spelling, seen under the lower-case one
C8_Witness ==
    /\ call.op = "addConfigLocation"
    /\ call.key = KeyCursorMixed
    /\ call.key # KeyCursor
    /\ registry[KeyCursor].configs[Len(registry[KeyCursor].configs)] = call.arg
    /\ getAppConfig(KeyCursor) = getAppConfig(KeyCursorMixed)

----------------------------------------------------------------------------
(* Claims about the Reader, checked under SpecReader *)

\* the read that readConfig makes of the location cannot succeed
ReadFails(location) ==
    LET node == NodeAt(location.path)
    IN  ~(node.readable /\ node.kind = (IF location.type = "directory"
                                        THEN "directory" ELSE "file"))

ParseFails(location) ==
    parseAs(location.format, NodeAt(location.path).content).outcome = "throw"

\* C4: readConfig always returns a ConfigContent; a failed read gives empty
\* content and an error; a file whose json, plist or yaml text does not parse
\* gives the whole text and an error; a parsed file and a text file give no
\* error.
C4_ReadTotal ==
    call.op = "readConfig" =>
        /\ call.outcome = "return"
        /\ call.value.path = call.arg.path
        /\ ReadFails(call.arg) =>
              call.value.content = <<>> /\ truthyError(call.value.error)
        /\ (~ReadFails(call.arg) /\ call.arg.type = "file"
                /\ call.arg.format \in {"json", "plist", "yaml"}
                /\ ParseFails(call.arg)) =>
              /\ call.value.content = NodeAt(call.arg.path).content
              /\ truthyError(call.value.error)
        /\ (~ReadFails(call.arg) /\ call.arg.type = "file"
                /\ (call.arg.format = "text" \/ ~ParseFails(call.arg))) =>
              /\ call.value.content = NodeAt(call.arg.path).content
              /\ call.value.error = NoError

\* malformed JSON read as json: the raw text comes back with an error
C4_Witness ==
    /\ call.op = "readConfig"
    /\ call.arg.format = "json"
    /\ call.value.content = TextBroken
    /\ truthyError(call.value.error)

\* the line holds the term when letter case is ignored
ContainsIgnoringCase(line, term) ==
    \E i \in 0..(Len(line) - Len(term)) :
        \A j \in 1..Len(term) : lowerChar(line[i + j]) = lowerChar(term[j])

\* the line without the white space around it
Trimmed(line) ==
    LET inked == {i \in 1..Len(line) : line[i] \notin WhiteSpace}
    IN  IF inked = {} THEN <<>>
        ELSE SubSeq(line, CHOOSE i \in inked : \A j \in inked : i <= j,
                          CHOOSE i \in inked : \A j \in inked : j <= i)

LineLabel(n) == <<"L", "i", "n", "e", " ">> \o numberToString(n) \o <<":", " ">>

\* `result` has one entry "Line N: <trimmed line>" for each line N holding
\* the term, in line order, and nothing else
ExactlyTheMatches(result, lines, term) ==
    LET hit(n) == ContainsIgnoringCase(lines[n], term)
        rank(n) == Cardinality({m \in 1..n : hit(m)})
    IN  /\ Len(result) = rank(Len(lines))
        /\ \A n \in 1..Len(lines) :
              hit(n) => result[rank(n)] = LineLabel(n) \o Trimmed(lines[n])

\* C5: when readConfig reports no error, searchInConfig returns exactly the
\* entries "Line N: <trimmed line>" of the lines holding the term ignoring
\* case, in line order, and the same for every spelling of the term; when
\* readConfig reports an error it returns the empty sequence; it never throws.
C5_SearchExact ==
    call.op = "searchInConfig" =>
        LET read == readConfig(call.arg).value
        IN  /\ call.outcome = "return"
            /\ truthyError(read.error) => call.value = <<>>
            /\ ~truthyError(read.error) =>
                  ExactlyTheMatches(call.value, split(read.content, "\n"), call.key)
            /\ \A t \in TermInputs :
                  EqualsIgnoringCase(t, call.key) =>
                      searchInConfig(call.arg, t).value = call.value

\* "THEME" searched in a file whose lines 1 and 3 hold the word in other cases
C5_Witness ==
    /\ call.op = "searchInConfig"
    /\ call.key = TermUpper
    /\ NodeAt(call.arg.path) = File(TextYaml)
    /\ call.value =
          << <<"L", "i", "n", "e", " ", "1", ":", " ", "T", "h", "e", "m", "e", ":", " ", "1">>,
             <<"L", "i", "n", "e", " ", "3", ":", " ",
               "t", "H", "E", "M", "E", "s", ":", " ", "3">> >>

----------------------------------------------------------------------------
(* Claims about the server *)

\* the candidates of a list that exist with their declared type, resolved,
\* in the order of the list
ResolvedAmong(configs) ==
    LET kept == SelectSeq(configs, Resolvable)
    IN  [i \in 1..Len(kept) |-> Resolved(kept[i])]

\* the application a read request names
AppOf(r) == IF r.op = "read_config" THEN r.key ELSE uriAppKey(r.key)

\* the text occurs somewhere in the path as it is written
OccursIn(text, path) ==
    \E i \in 1..(Len(pathText(path)) - Len(text) + 1) :
        SubSeq(pathText(path), i, i + Len(text) - 1) = text

\* the locations a read request is to read when its application has the
\* candidates given, in declaration order: the resolved ones, and for
\* read_config with a config_path those of them whose path has that text in it
TargetsAmong(r, configs) ==
    IF r.op = "read_config" /\ r.arg # <<>>
    THEN SelectSeq(ResolvedAmong(configs), LAMBDA c : OccursIn(r.arg, c.path))
    ELSE ResolvedAmong(configs)

\* what a finished read request shows for one location
ShownFor(r, configLocation) ==
    IF r.op = "read_config"
    THEN formatConfigForDisplay(readConfig(configLocation).value)
    ELSE readConfig(configLocation).value

\* the request followed has been answered with what it read
ReadFinished ==
    /\ inflight.pc = "done"
    /\ resp.op \in {"read_config", "ReadResource"}
    /\ <<resp.op, resp.key, resp.arg>> = <<inflight.op, inflight.key, inflight.arg>>
    /\ resp.value.kind \in {"contents", "resource"}

\* the table is the one the request followed was taken with
Undisturbed == inflight.since = mutations

\* C6: when read_config or a resource read has read several resolved
\* locations of one application concurrently, its response lists one result
\* per resolved location, in the declaration order of the locations whatever
\* the order the reads settled in: the i-th result is the one of the i-th
\* location, failed reads included.  The resolved locations are those of the
\* application's candidates as the resolution of the request walked them: all
\* of them when no location was added while the request was in progress, and
\* otherwise those up to some point of the list.
C6_DeclarationOrder ==
    ReadFinished =>
        \A configs \in {registry[TableKey(AppOf(resp))].configs} :
            /\ \E n \in 0..Len(configs) :
                    inflight.targets = TargetsAmong(resp, SubSeq(configs, 1, n))
            /\ Undisturbed => inflight.targets = TargetsAmong(resp, configs)
            /\ Len(resp.value.items) = Len(inflight.targets)
            /\ \A i \in 1..Len(inflight.targets) :
                /\ resp.value.items[i].path = inflight.targets[i].path
                /\ resp.value.items[i] = ShownFor(resp, inflight.targets[i])

\* read_config with a config_path that two of the three resolved locations
\* have in their path: the two were read, the second one settled first, the
\* read of the first failed while the other succeeded, and a location was
\* added while the request was in progress
C6_Witness ==
    /\ ReadFinished
    /\ resp.op = "read_config"
    /\ resp.arg # <<>>
    /\ Len(ResolvedAmong(registry[TableKey(AppOf(resp))].configs)) = 3
    /\ Len(inflight.targets) = 2
    /\ inflight.order[1] = 2
    /\ truthyError(resp.value.items[1].error)
    /\ ~truthyError(resp.value.items[2].error)
    /\ ~Undisturbed

\* C9: in every table reached by add_config_location requests, every
\* location of type directory has format directory.
C9_DirectoryFormat ==
    \A k \in DOMAIN registry : \A i \in 1..Len(registry[k].configs) :
        registry[k].configs[i].type = "directory"
            => registry[k].configs[i].format = "directory"

ToolNames ==
    {"list_apps", "find_config", "read_config", "search_config", "add_config_location"}

\* the resources ListResources offers
KnownUri(uri) ==
    \E i \in 1..Len(listResources.value.items) : listResources.value.items[i].uri = uri

\* C10: a request ends in an exception only when it names an unknown tool or
\* an unknown or invalid resource; no request to one of the five tools does.
C10_OnlyUnknownFails ==
    resp.outcome = "throw" =>
        /\ resp.op \notin ToolNames
        /\ resp.op = "ReadResource" => ~KnownUri(resp.key)

\* an application name the built-in table has no entry for
NewApplication(k) == toLowerCase(k) \notin DOMAIN APP_CONFIGS

\* the last request was add_config_location, it returned its message, and it
\* named a new application and a path that exists with the given type
AddedForNewApplication ==
    /\ resp.op = "add_config_location"
    /\ resp.outcome = "return"
    /\ NewApplication(resp.key)
    /\ Resolvable(resp.arg)

\* C11: after add_config_location for an application name that is not in the
\* built-in table, with a path that exists and matches the given type, the
\* application is known: list_apps lists it and find_config for it returns
\* the added location.
C11_NewApplicationKnown ==
    AddedForNewApplication =>
        /\ getAppConfig(resp.key) # Undefined
        /\ \E i \in 1..Len(listApps.value.items) :
                listApps.value.items[i].key = toLowerCase(resp.key)
        /\ findConfig(resp.key).value.kind = "configurations"
        /\ \E i \in 1..Len(findConfig(resp.key).value.items) :
                findConfig(resp.key).value.items[i] = Resolved(resp.arg)

----------------------------------------------------------------------------
(* Claims about the resource interface *)

\* the application has at least one location that exists with its declared type
HasResolvable(k) ==
    \E i \in 1..Len(registry[k].configs) : Resolvable(registry[k].configs[i])

\* the locations of the application that exist with their declared type, in
\* declaration order, with their paths expanded
ResolvedOf(k) == ResolvedAmong(registry[k].configs)

UriOf(k) == <<UriPrefix>> \o k

\* the enumeration offers exactly the applications of the set given, each
\* once, under config://<key>
ExactlyThose(resources, keys) ==
    /\ \A k \in DOMAIN registry :
        Cardinality({i \in 1..Len(resources) : resources[i].uri = UriOf(k)})
            = IF k \in keys THEN 1 ELSE 0
    /\ \A i \in 1..Len(resources) : \E k \in DOMAIN registry : resources[i].uri = UriOf(k)

\* the enumeration offers exactly the applications with a resolvable config
ExactlyTheConfigured(resources) ==
    ExactlyThose(resources, {k \in DOMAIN registry : HasResolvable(k)})

\* the enumeration followed has been answered
ListFinished ==
    /\ resp.op = "ListResources"
    /\ inflight.op = "ListResources"
    /\ inflight.pc = "done"

\* C12: the resource enumeration lists exactly one resource per application
\* key with at least one resolvable config, under config://<key>, and none
\* for an application without one; reading a listed resource, with the
\* registry unchanged in between, returns the result of reading every
\* resolved config of that application, in order.  An enumeration during
\* which a location was added lists the applications by what its resolution
\* of each one found, which is that of the application's candidates up to
\* some point of its list.  A read during which a location was added answers
\* likewise for the candidates up to some point of the list: with the result
\* of reading the resolved ones, or, when none of them resolves, with a
\* failure.
C12_ResourcesExact ==
    /\ resp.op = "ListResources" =>
        /\ ListFinished
        /\ resp.outcome = "return"
        /\ Len(inflight.rows) = Len(KeyOrder)
        /\ \A i \in 1..Len(KeyOrder) :
            /\ inflight.rows[i].appKey = KeyOrder[i]
            /\ \E n \in 0..Len(registry[KeyOrder[i]].configs) :
                    inflight.rows[i].configs
                        = ResolvedAmong(SubSeq(registry[KeyOrder[i]].configs, 1, n))
        /\ ExactlyThose(resp.value.items,
                {KeyOrder[i] : i \in {j \in 1..Len(KeyOrder) : inflight.rows[j].configs # <<>>}})
        /\ Undisturbed => ExactlyTheConfigured(resp.value.items)
    /\ (resp.op = "ReadResource" /\ \E k \in DOMAIN registry :
                                        HasResolvable(k) /\ resp.key = UriOf(k)) =>
        /\ inflight.pc = "done"
        /\ <<inflight.op, inflight.key>> = <<resp.op, resp.key>>
        /\ Undisturbed =>
            /\ ReadFinished
            /\ resp.outcome = "return"
            /\ KnownUri(resp.key)
        /\ \A k \in {uriAppKey(resp.key)} :
            /\ \E n \in 0..Len(registry[k].configs) :
                /\ inflight.targets = ResolvedAmong(SubSeq(registry[k].configs, 1, n))
                /\ Undisturbed => n = Len(registry[k].configs)
            /\ IF inflight.targets = <<>>
               THEN resp.outcome = "throw"
               ELSE /\ resp.outcome = "return"
                    /\ resp.value.title = registry[k].displayName
                    /\ Len(resp.value.items) = Len(inflight.targets)
                    /\ \A i \in 1..Len(inflight.targets) :
                        resp.value.items[i] = readConfig(inflight.targets[i]).value

\* two applications are offered, three are not, and the resource of one that
\* is offered was read with the registry unchanged in between: two configs,
\* one of which could not be read
C12_Witness ==
    /\ resp.op = "ReadResource"
    /\ resp.outcome = "return"
    /\ Undisturbed
    /\ Len(listResources.value.items) = 2
    /\ KnownUri(resp.key)
    /\ Len(resp.value.items) = 2
    /\ truthyError(resp.value.items[1].error)
    /\ ~truthyError(resp.value.items[2].error)

----------------------------------------------------------------------------
(* Claims about formatConfigForDisplay *)

\* the raw text as it is shown: whole when it has at most DisplayLines
\* lines, else its first DisplayLines lines and the notice of the total
RawShown(content) ==
    LET lines == split(content, "\n")
    IN  IF Len(lines) <= DisplayLines THEN content
        ELSE join([i \in 1..DisplayLines |-> lines[i]], <<"\n">>)
                \o truncationNotice(Len(lines))

\* json or plist content with a successfully parsed value
ParsedStructure(configContent) ==
    configContent.format \in {"json", "plist"} /\ configContent.parsed.defined

\* C13: formatConfigForDisplay gives, in this order of cases: for a content
\* with an error, the one-line error message and nothing else; for a
\* directory, the listing; for json or plist content with a successfully
\* parsed value, the pretty-printed dump of the value; otherwise the raw
\* text, whole when it has at most 50 lines, else its first 50 lines followed
\* by a notice of the total number of lines.
C13_DisplayCases ==
    call.op = "formatConfigForDisplay" =>
        IF truthyError(call.arg.error)
        THEN call.value = Display(call.arg.path, "", <<>>, call.arg.error)
        ELSE /\ call.value.path = call.arg.path
             /\ call.value.format = call.arg.format
             /\ call.value.error = NoError
             /\ call.value.body =
                    IF call.arg.format = "directory" THEN call.arg.content
                    ELSE IF ParsedStructure(call.arg) THEN stringify(call.arg.parsed, 2)
                    ELSE RawShown(call.arg.content)

====
